---- MODULE Spec2Model ----
(***************************************************************************)
(* Model of src/managers/storage.js: the dotted-path accessors get/set,    *)
(* the StorageAdapter (load/save/get/set/keys) and the Storage registry    *)
(* (factory + saveAll), together with the durable store they read and      *)
(* write.                                                                  *)
(***************************************************************************)
EXTENDS Integers, Sequences, FiniteSets, TLC

VARIABLES
    cache,      \* Storage.cache: sequence of [key, adapter] in insertion order
    adapters,   \* heap of StorageAdapter instances: id -> [storageFile, data]
    disk,       \* durable store: storage location -> file content
    target,     \* the object handed to the accessors get/set when they are called directly
    last        \* the last call and its outcome

vars == <<cache, adapters, disk, target, last>>

----------------------------------------------------------------------------
(* Bounds of the model *)

MaxPathLen == 2     \* segments of a key path given to an adapter
MaxSegments == 3    \* segments of a key path given to the accessors directly

----------------------------------------------------------------------------
(* JavaScript values (JSON-compatible values plus undefined) *)

NoProps == [k \in {} |-> 0]

Undefined == [t |-> "undefined"]
Null      == [t |-> "null"]
Num(n)    == [t |-> "number", n |-> n]
Obj(m)    == [t |-> "object", m |-> m]      \* plain object with own properties m
Arr(m)    == [t |-> "array", m |-> m]       \* array without elements, with non-index properties m

EmptyObj == Obj(NoProps)
EmptyArr == Arr(NoProps)

Keys == {"a", "b"}

IsContainer(v) == v.t \in {"object", "array"}

\* typeof v
TypeOf(v) == IF v.t \in {"object", "array", "null"} THEN "object" ELSE v.t

\* ToBoolean(v), as used by ||
Truthy(v) ==
    CASE v.t = "undefined" -> FALSE
      [] v.t = "null"      -> FALSE
      [] v.t = "number"    -> v.n # 0
      [] OTHER             -> TRUE

\* v[k] throws a TypeError for null and undefined
Throws(v) == v.t \in {"null", "undefined"}

\* v[k] for a value that is not null or undefined
GetProp(v, k) ==
    IF IsContainer(v) /\ k \in DOMAIN v.m THEN v.m[k] ELSE Undefined

\* v[k] = x in sloppy mode: creates or replaces the own property of an
\* object; silently ignored on a primitive
PutProp(v, k, x) ==
    IF IsContainer(v)
    THEN [v EXCEPT !.m = [j \in (DOMAIN v.m) \cup {k} |-> IF j = k THEN x ELSE v.m[j]]]
    ELSE v

\* Object.keys(v) of a container
OwnKeys(v) == DOMAIN v.m

----------------------------------------------------------------------------
(* Key paths: the argument of get/set is either a string, modelled by the  *)
(* segments keyPath.split(/\./g) yields, or a value that is not a string.  *)

RECURSIVE SeqsUpTo(_)
SeqsUpTo(n) ==
    IF n = 0 THEN {<<>>}
    ELSE LET shorter == SeqsUpTo(n - 1)
         IN  shorter \cup {Append(p, k) : p \in shorter, k \in Keys}

Paths == SeqsUpTo(MaxSegments) \ {<<>>}

StringKey(p) == [isString |-> TRUE, split |-> p]
NotAString   == [isString |-> FALSE, split |-> <<>>]

KeyArgs == {StringKey(p) : p \in Paths} \cup {NotAString}

----------------------------------------------------------------------------
(* Outcome of a call: the value returned, or the error thrown *)

Returned(v) == [err |-> "none", val |-> v]
Thrown(e)   == [err |-> e, val |-> Undefined]

ErrNotLoaded        == "Error: Data has yet to be loaded"
ErrObjectArg        == "TypeError: object must be an object"
ErrKeyPathArg       == "TypeError: keyPath must be a string"
ErrKeyArg           == "TypeError: key must be a string"
ErrNotAnObject      == "TypeError: value at path was not an object"
ErrNullDereference  == "TypeError: cannot read or set properties of null"

----------------------------------------------------------------------------
(* The accessor get(object, keyPath) *)

\* the loop without the typeof test of the next value
RECURSIVE GetWalk_NoTypeTest(_, _)
GetWalk_NoTypeTest(current, split) ==
    IF Throws(current) THEN Thrown(ErrNullDereference)
    ELSE IF Len(split) = 1 THEN Returned(GetProp(current, split[1]))
    ELSE GetWalk_NoTypeTest(GetProp(current, Head(split)), Tail(split))

\* the loop over split[0 .. length-2] and the final read
RECURSIVE GetWalk(_, _)
GetWalk(current, split) ==
    IF Throws(current) THEN Thrown(ErrNullDereference)
    ELSE IF Len(split) = 1 THEN Returned(GetProp(current, split[1]))
    ELSE LET next == GetProp(current, Head(split))
         IN  IF TypeOf(next) # "object"
             THEN Thrown(ErrNotAnObject)
             ELSE GetWalk(next, Tail(split))

GetPath(object, keyPath) ==
    IF TypeOf(object) # "object" THEN Thrown(ErrObjectArg)
    ELSE IF ~keyPath.isString THEN Thrown(ErrKeyPathArg)
    ELSE GetWalk(object, keyPath.split)

----------------------------------------------------------------------------
(* The accessor set(object, keyPath, value).  The result is the error      *)
(* thrown and the object as the call leaves it.                            *)

\* current = current[key] ?? (current[key] = {}): only a missing value is
\* replaced
Descend_KeepsFalsy(child) == IF child.t \in {"undefined", "null"} THEN EmptyObj ELSE child

\* current = current[key] = {}: a new object whatever the key holds
Descend_AlwaysNew(child) == EmptyObj

\* current = current[key] || (current[key] = {})
Descend(child) == IF Truthy(child) THEN child ELSE EmptyObj

\* the loop over split[0 .. length-2] and the final assignment, on a current
\* that is not null: the value of current after the call
RECURSIVE SetWalk(_, _, _)
SetWalk(current, split, value) ==
    IF Len(split) = 1 THEN PutProp(current, split[1], value)
    ELSE LET key  == Head(split)
             next == Descend(GetProp(current, key))
         IN  PutProp(current, key, SetWalk(next, Tail(split), value))

SetPath(object, keyPath, value) ==
    IF TypeOf(object) # "object" THEN [err |-> ErrObjectArg, obj |-> object]
    ELSE IF ~keyPath.isString THEN [err |-> ErrKeyPathArg, obj |-> object]
    ELSE IF Throws(object) THEN [err |-> ErrNullDereference, obj |-> object]
    ELSE [err |-> "none", obj |-> SetWalk(object, keyPath.split, value)]

----------------------------------------------------------------------------
(* The object as get(object, keyPath) leaves it *)

\* a get that creates the intermediate objects it does not find
RECURSIVE VivifyWalk(_, _)
VivifyWalk(current, split) ==
    IF Len(split) = 1 THEN current
    ELSE LET key == Head(split)
         IN  PutProp(current, key, VivifyWalk(Descend(GetProp(current, key)), Tail(split)))

GetLeaves_Vivified(object, keyPath) ==
    IF keyPath.isString /\ IsContainer(object)
    THEN VivifyWalk(object, keyPath.split)
    ELSE object

\* get only reads current[key] and assigns to its local variable current
GetLeaves(object, keyPath) == object

----------------------------------------------------------------------------
(* The durable store: fse.existsSync, fse.readJSONSync, fse.writeJSONSync  *)

Missing  == [k |-> "missing", v |-> Undefined]    \* no file at the location
Corrupt  == [k |-> "corrupt", v |-> Undefined]    \* a file that does not parse
Json(v)  == [k |-> "json", v |-> v]               \* a file holding the JSON text of v

\* JSON.stringify followed by JSON.parse: properties whose value is undefined
\* are left out, an array keeps its elements only
RECURSIVE Stringify(_)
Stringify(v) ==
    CASE v.t = "object" ->
            Obj([k \in {j \in DOMAIN v.m : v.m[j].t # "undefined"} |-> Stringify(v.m[k])])
      [] v.t = "array"  -> EmptyArr
      [] OTHER          -> v

\* what a call of writeJSONSync can do to the file: write it, fail before
\* the file is touched, or fail after the file has been truncated
WriteOutcomes == {"written", "failed", "failedPartial"}

WriteJSON(content, data, outcome) ==
    CASE outcome = "written"       -> Json(Stringify(data))
      [] outcome = "failedPartial" -> Corrupt
      [] OTHER                     -> content

\* readJSONSync: the parsed value, or a throw
ReadJSON(content) ==
    IF content.k = "json" THEN Returned(content.v) ELSE Thrown("read")

----------------------------------------------------------------------------
(* Logical names and storage locations.  A name or path is the sequence of *)
(* its parts, so that endsWith('.json') is a test on the last part.        *)

ConfigsFolder == <<"configs">>

Names == {<<"7">>, <<"7", ".json">>}

\* path.resolve(global.settings.configsFolder, storageFile), then the
\* extension is appended unless the path already ends with it
RealPath(storageFile) ==
    LET realPath == ConfigsFolder \o storageFile
    IN  IF realPath[Len(realPath)] = ".json" THEN realPath
        ELSE Append(realPath, ".json")

Locations == {RealPath(n) : n \in Names}

\* property keys that are array indices, with their numeric value: for...in
\* visits these first, in ascending order, before the other keys
ArrayIndex == [s \in {"7"} |-> 7]

IsArrayIndex(name) == Len(name) = 1 /\ name[1] \in DOMAIN ArrayIndex

\* contents a location may hold when the process starts
InitContents == {Missing, Corrupt, Json(Null), Json(Num(5))}

\* keys the callers pass to adapter.get and adapter.set: "a", "a.b",
\* "a.b.a", ... up to MaxPathLen segments, and a value that is not a string
RECURSIVE Chain(_)
Chain(n) == IF n = 0 THEN <<>> ELSE Append(Chain(n - 1), IF n % 2 = 1 THEN "a" ELSE "b")

AdapterKeyArgs == {StringKey(Chain(n)) : n \in 1..MaxPathLen} \cup {NotAString}

\* values the callers pass to adapter.set
SetValues == {Undefined, Null, Num(5), EmptyObj}

----------------------------------------------------------------------------
(* StorageAdapter *)

Loaded(a) == a.data.t # "null"          \* this.data !== null

\* load() that takes a missing file for a failed read
LoadData_MissingFails(content) ==
    LET r == ReadJSON(content)
    IN  IF r.err = "none" THEN r.val ELSE Null

\* load(): the value this.data is given
LoadData(content) ==
    IF content.k = "missing" THEN EmptyObj
    ELSE LET r == ReadJSON(content)
         IN  IF r.err = "none" THEN r.val ELSE Null

\* new StorageAdapter(storageFile): data = null, then load()
NewAdapter(storageFile, content) ==
    [storageFile |-> storageFile, data |-> LoadData(content)]

\* save() that appends the document to the file instead of replacing it
AdapterSave_Appends(a, content, outcome) ==
    IF ~Loaded(a) THEN [err |-> ErrNotLoaded, content |-> content, outcome |-> "none"]
    ELSE [err |-> "none",
          content |-> IF outcome = "written" /\ content.k # "missing" THEN Corrupt
                      ELSE WriteJSON(content, a.data, outcome),
          outcome |-> outcome]

\* save() without the test of this.data
AdapterSave_NoLoadedTest(a, content, outcome) ==
    [err |-> "none", content |-> WriteJSON(content, a.data, outcome), outcome |-> outcome]

\* save() without the try/catch around the write
AdapterSave_NoCatch(a, content, outcome) ==
    IF ~Loaded(a) THEN [err |-> ErrNotLoaded, content |-> content, outcome |-> "none"]
    ELSE [err |-> IF outcome = "written" THEN "none" ELSE "Error: write failed",
          content |-> WriteJSON(content, a.data, outcome), outcome |-> outcome]

\* save(): the error thrown, the content of the file afterwards and what
\* the write did ("none" when no write was attempted)
AdapterSave(a, content, outcome) ==
    IF ~Loaded(a) THEN [err |-> ErrNotLoaded, content |-> content, outcome |-> "none"]
    ELSE [err |-> "none", content |-> WriteJSON(content, a.data, outcome), outcome |-> outcome]

\* get(key)
AdapterGet(a, key) ==
    IF ~Loaded(a) THEN Thrown(ErrNotLoaded)
    ELSE IF ~key.isString THEN Thrown(ErrKeyArg)
    ELSE GetPath(a.data, key)

\* set(key, value) that assigns before it reads the previous value
AdapterSet_SetsFirst(a, key, value) ==
    IF ~Loaded(a) THEN [err |-> ErrNotLoaded, val |-> Undefined, data |-> a.data]
    ELSE IF ~key.isString THEN [err |-> ErrKeyArg, val |-> Undefined, data |-> a.data]
    ELSE LET s        == SetPath(a.data, key, value)
             oldValue == AdapterGet(a, key)
         IN  IF oldValue.err # "none" \/ s.err # "none"
             THEN [err |-> IF s.err # "none" THEN s.err ELSE oldValue.err,
                   val |-> Undefined, data |-> s.obj]
             ELSE [err |-> "none", val |-> oldValue.val, data |-> s.obj]

\* set(key, value) that reads the value to return after the assignment
AdapterSet_ReadsAfter(a, key, value) ==
    IF ~Loaded(a)
    THEN [err |-> ErrNotLoaded, val |-> Undefined, data |-> a.data]
    ELSE IF ~key.isString
    THEN [err |-> ErrKeyArg, val |-> Undefined, data |-> a.data]
    ELSE IF GetPath(a.data, key).err # "none"
    THEN [err |-> GetPath(a.data, key).err, val |-> Undefined, data |-> a.data]
    ELSE LET s == SetPath(a.data, key, value)
         IN  [err |-> s.err, val |-> GetPath(s.obj, key).val, data |-> s.obj]

\* set(key, value): the error thrown, the value returned and this.data
\* afterwards
AdapterSet(a, key, value) ==
    IF ~Loaded(a)
    THEN [err |-> ErrNotLoaded, val |-> Undefined, data |-> a.data]
    ELSE IF ~key.isString
    THEN [err |-> ErrKeyArg, val |-> Undefined, data |-> a.data]
    ELSE LET oldValue == AdapterGet(a, key)
         IN  IF oldValue.err # "none"
             THEN [err |-> oldValue.err, val |-> Undefined, data |-> a.data]
             ELSE LET s == SetPath(a.data, key, value)
                  IN  [err |-> s.err,
                       val |-> IF s.err = "none" THEN oldValue.val ELSE Undefined,
                       data |-> s.obj]

\* the keys getter, Object.keys(this.data): the error thrown and the keys
AdapterKeys(a) ==
    IF Throws(a.data) THEN [err |-> ErrNullDereference, keys |-> {}]
    ELSE [err |-> "none", keys |-> IF IsContainer(a.data) THEN OwnKeys(a.data) ELSE {}]

----------------------------------------------------------------------------
(* Storage: the cache, the factory and saveAll *)

CacheKeys == {cache[i].key : i \in DOMAIN cache}

\* a cache looked up by the storage location the name resolves to
Lookup_ByLocation(c, storageFile) ==
    IF \E i \in DOMAIN c : RealPath(c[i].key) = RealPath(storageFile)
    THEN c[CHOOSE i \in DOMAIN c : RealPath(c[i].key) = RealPath(storageFile)].adapter
    ELSE 0

\* a lookup that never finds the key
Lookup_AlwaysMisses(c, storageFile) == 0

\* cache[storageFile]: the adapter id, or 0 when the key is not in the cache
Lookup(c, storageFile) ==
    IF \E i \in DOMAIN c : c[i].key = storageFile
    THEN c[CHOOSE i \in DOMAIN c : c[i].key = storageFile].adapter
    ELSE 0

\* the entries of a sequence of index-keyed entries in ascending key order
RECURSIVE Ascending(_)
Ascending(entries) ==
    IF entries = <<>> THEN <<>>
    ELSE LET i == CHOOSE i \in DOMAIN entries :
                    \A j \in DOMAIN entries :
                        ArrayIndex[entries[i].key[1]] <= ArrayIndex[entries[j].key[1]]
         IN  <<entries[i]>> \o
             Ascending(SubSeq(entries, 1, i - 1) \o SubSeq(entries, i + 1, Len(entries)))

IsIndexEntry(e) == IsArrayIndex(e.key)
IsNamedEntry(e) == ~IsArrayIndex(e.key)

\* for (const key in this.cache): array-index keys ascending, then the other
\* keys in insertion order
ForInOrder(c) == Ascending(SelectSeq(c, IsIndexEntry)) \o SelectSeq(c, IsNamedEntry)

\* the loop of saveAll over the entries still to visit: the error that ends
\* it, the store afterwards and the adapters save() was invoked on, in order
RECURSIVE SaveAllWalk(_, _, _, _)
SaveAllWalk(entries, heap, store, outcomes) ==
    IF entries = <<>> THEN [err |-> "none", disk |-> store, saved |-> <<>>]
    ELSE LET id == entries[1].adapter
             a  == heap[id]
             s  == AdapterSave(a, store[a.storageFile], outcomes[1])
         IN  IF s.err # "none"
             THEN [err |-> s.err, disk |-> store, saved |-> <<id>>]
             ELSE LET rest == SaveAllWalk(Tail(entries), heap,
                                          [store EXCEPT ![a.storageFile] = s.content],
                                          Tail(outcomes))
                  IN  [err |-> rest.err, disk |-> rest.disk, saved |-> <<id>> \o rest.saved]

----------------------------------------------------------------------------
(* The last call: what was called, on which adapter, and how it ended.    *)
(* val is the value a set that returned has stored; outcome is what the   *)
(* write of a save did, whether every write of a saveAll succeeded,       *)
(* whether the factory created the adapter, or whether load() was called  *)
(* on a loaded adapter; before is the object a direct call of the        *)
(* accessor set was given.                                                *)

NoCall ==
    [op |-> "none", id |-> 0, name |-> <<>>, key |-> NotAString, val |-> Undefined,
     err |-> "none", ret |-> Undefined, saved |-> <<>>, keys |-> {}, outcome |-> "none",
     before |-> Undefined]

----------------------------------------------------------------------------
(* Initial state: a new Storage() with an empty cache *)

Init ==
    /\ cache = <<>>
    /\ adapters = <<>>
    /\ disk \in [Locations -> InitContents]
    /\ target = Undefined
    /\ last = NoCall

----------------------------------------------------------------------------
(* Actions *)

\* factory(storageFile)
Registry(name) ==
    LET cached == Lookup(cache, name)
    IN  IF cached # 0
        THEN /\ last' = [NoCall EXCEPT !.op = "registry", !.name = name, !.id = cached,
                                       !.outcome = "cached"]
             /\ UNCHANGED <<cache, adapters, disk, target>>
        ELSE /\ adapters' = Append(adapters, NewAdapter(RealPath(name), disk[RealPath(name)]))
             /\ cache' = Append(cache, [key |-> name, adapter |-> Len(adapters) + 1])
             /\ last' = [NoCall EXCEPT !.op = "registry", !.name = name,
                                       !.id = Len(adapters) + 1, !.outcome = "created"]
             /\ UNCHANGED <<disk, target>>

\* factory.saveAll()
SaveAll ==
    \E outcomes \in [1..Len(cache) -> WriteOutcomes] :
        LET r == SaveAllWalk(ForInOrder(cache), adapters, disk, outcomes)
        IN  /\ disk' = r.disk
            /\ last' = [NoCall EXCEPT !.op = "saveAll", !.err = r.err, !.saved = r.saved,
                                      !.outcome = IF /\ r.err = "none"
                                                     /\ \A i \in DOMAIN outcomes :
                                                            outcomes[i] = "written"
                                                  THEN "written" ELSE "none"]
            /\ UNCHANGED <<cache, adapters, target>>

\* load() that reads the document only while the adapter is unloaded
Load_OnlyWhenUnloaded(id) ==
    /\ adapters' = [adapters EXCEPT ![id].data =
                        IF Loaded(adapters[id]) THEN @
                        ELSE LoadData(disk[adapters[id].storageFile])]
    /\ last' = [NoCall EXCEPT !.op = "load", !.id = id,
                              !.outcome = IF Loaded(adapters[id]) THEN "reloaded"
                                          ELSE "loaded"]
    /\ UNCHANGED <<cache, disk, target>>

\* adapter.load()
Load(id) ==
    /\ adapters' = [adapters EXCEPT ![id].data = LoadData(disk[adapters[id].storageFile])]
    /\ last' = [NoCall EXCEPT !.op = "load", !.id = id,
                              !.outcome = IF Loaded(adapters[id]) THEN "reloaded"
                                          ELSE "loaded"]
    /\ UNCHANGED <<cache, disk, target>>

\* adapter.save()
Save(id) ==
    \E outcome \in WriteOutcomes :
        LET a == adapters[id]
            r == AdapterSave(a, disk[a.storageFile], outcome)
        IN  /\ disk' = [disk EXCEPT ![a.storageFile] = r.content]
            /\ last' = [NoCall EXCEPT !.op = "save", !.id = id, !.err = r.err,
                                      !.outcome = r.outcome]
            /\ UNCHANGED <<cache, adapters, target>>

\* adapter.get(key)
Get(id, key) ==
    LET a == adapters[id]
        r == AdapterGet(a, key)
    IN  /\ adapters' = [adapters EXCEPT ![id].data = IF Loaded(a) /\ key.isString
                                                      THEN GetLeaves(a.data, key)
                                                      ELSE a.data]
        /\ last' = [NoCall EXCEPT !.op = "get", !.id = id, !.key = key,
                                  !.err = r.err, !.ret = r.val]
        /\ UNCHANGED <<cache, disk, target>>

\* adapter.set(key, value)
Set(id, key, value) ==
    LET r == AdapterSet(adapters[id], key, value)
    IN  /\ adapters' = [adapters EXCEPT ![id].data = r.data]
        /\ last' = [NoCall EXCEPT !.op = "set", !.id = id, !.key = key,
                                  !.val = IF r.err = "none" THEN value ELSE Undefined,
                                  !.err = r.err, !.ret = r.val]
        /\ UNCHANGED <<cache, disk, target>>

\* adapter.keys
ReadKeys(id) ==
    LET r == AdapterKeys(adapters[id])
    IN  /\ last' = [NoCall EXCEPT !.op = "keys", !.id = id, !.err = r.err, !.keys = r.keys]
        /\ UNCHANGED <<cache, adapters, disk, target>>

Next ==
    \/ \E name \in Names : Registry(name)
    \/ SaveAll
    \/ \E id \in DOMAIN adapters : Load(id)
    \/ \E id \in DOMAIN adapters : Save(id)
    \/ \E id \in DOMAIN adapters, key \in AdapterKeyArgs : Get(id, key)
    \/ \E id \in DOMAIN adapters, key \in AdapterKeyArgs, value \in SetValues : Set(id, key, value)
    \/ \E id \in DOMAIN adapters : ReadKeys(id)

Spec == Init /\ [][Next]_vars

----------------------------------------------------------------------------
(* The accessors called directly: get(object, keyPath) and                 *)
(* set(object, keyPath, value) applied to an object drawn from Targets:    *)
(* one set on the object as drawn, and any number of gets.                 *)

Leaves == {Undefined, Null, Num(0), Num(5)}

\* plain objects with own keys among keys and property values among values
ObjectsWith(keys, values) ==
    {Obj(m) : m \in UNION {[S -> values] : S \in SUBSET keys}}

Grandchildren == Leaves \cup {EmptyObj, EmptyArr}

Children == Leaves \cup ObjectsWith({"b"}, Grandchildren) \cup {EmptyArr}

\* the first argument: plain objects nested along a, a.b, with or without
\* a sibling key b, and values that are not plain objects
Targets ==
    LET nested == ObjectsWith({"a"}, Children)
    IN  nested \cup {PutProp(o, "b", Num(5)) : o \in nested} \cup {EmptyArr, Null, Num(5)}

InitPath ==
    /\ cache = <<>>
    /\ adapters = <<>>
    /\ disk = [l \in Locations |-> Missing]
    /\ target \in Targets
    /\ last = NoCall

\* set(target, keyPath, value)
CallSet(keyPath, value) ==
    LET r == SetPath(target, keyPath, value)
    IN  /\ last.op = "none"
        /\ target' = r.obj
        /\ last' = [NoCall EXCEPT !.op = "setPath", !.key = keyPath, !.val = value,
                                  !.err = r.err, !.before = target]
        /\ UNCHANGED <<cache, adapters, disk>>

\* get(target, keyPath)
CallGet(keyPath) ==
    LET r == GetPath(target, keyPath)
    IN  /\ target' = GetLeaves(target, keyPath)
        /\ last' = [NoCall EXCEPT !.op = "getPath", !.key = keyPath,
                                  !.err = r.err, !.ret = r.val]
        /\ UNCHANGED <<cache, adapters, disk>>

NextPath ==
    \/ \E keyPath \in KeyArgs, value \in SetValues : CallSet(keyPath, value)
    \/ \E keyPath \in KeyArgs : CallGet(keyPath)

SpecPath == InitPath /\ [][NextPath]_vars

----------------------------------------------------------------------------
(* Helpers of the properties *)

KeyAB == StringKey(<<"a", "b">>)

\* the adapter of the last call, and the location it stores to
LastAdapter == adapters[last.id]
LastFile    == adapters[last.id].storageFile

LastOnAdapter(ops) == last.op \in ops /\ last.id \in DOMAIN adapters

\* adapter a after set(key, value)
AfterSet(a, key, value) == [a EXCEPT !.data = AdapterSet(a, key, value).data]

----------------------------------------------------------------------------
(* C1 *)

\* C1: for every loaded adapter and every value v, set("a.b", v) returns,
\* and after a save() that writes, a new adapter constructed on the same
\* location returns v from get("a.b").
C1_RoundTrip ==
    \A id \in DOMAIN adapters : \A v \in SetValues :
        LET a == adapters[id]
            s == AdapterSet(a, KeyAB, v)
            w == AdapterSave(AfterSet(a, KeyAB, v), disk[a.storageFile], "written")
            n == NewAdapter(a.storageFile, w.content)
        IN  Loaded(a) =>
                /\ s.err = "none"
                /\ w.err = "none"
                /\ AdapterGet(n, KeyAB) = Returned(v)

----------------------------------------------------------------------------
(* C2 *)

\* the factory has just constructed an adapter on a location without a file
FreshOnMissing ==
    /\ last.op = "registry"
    /\ last.outcome = "created"
    /\ disk[RealPath(last.name)] = Missing

\* C2 as stated: an adapter constructed on a location without a file is
\* loaded with the empty mapping, and get(p) returns undefined without
\* raising for every string path p.
C2_AnyPathReturnsUndefined ==
    FreshOnMissing =>
        /\ LastAdapter.data = EmptyObj
        /\ \A key \in AdapterKeyArgs :
               key.isString => AdapterGet(LastAdapter, key) = Returned(Undefined)

\* C2 amended: an adapter constructed on a location without a file is loaded
\* with the empty mapping; get(p) returns undefined without raising for
\* every single-segment path p, and raises the "was not an object" TypeError
\* for every path of two or more segments.
C2_MissingFileEmptyDocument ==
    FreshOnMissing =>
        /\ LastAdapter.data = EmptyObj
        /\ \A key \in AdapterKeyArgs :
               key.isString =>
                   AdapterGet(LastAdapter, key) =
                       IF Len(key.split) = 1 THEN Returned(Undefined)
                       ELSE Thrown(ErrNotAnObject)

\* get("a.b") has raised on an adapter that holds the empty mapping and
\* whose location has no file
C2_Witness ==
    /\ LastOnAdapter({"get"})
    /\ last.key = KeyAB
    /\ last.err = ErrNotAnObject
    /\ LastAdapter.data = EmptyObj
    /\ disk[LastFile] = Missing

----------------------------------------------------------------------------
(* C3 *)

\* C3: a load() (on construction or called explicitly) that finds a file it
\* cannot parse leaves the adapter unloaded; every get, set and save on an
\* unloaded adapter raises "Data has yet to be loaded" and changes neither
\* any adapter's data nor the durable store.
C3_UnloadedRejects ==
    [][ /\ ( /\ \/ last'.op = "load"
                \/ last'.op = "registry" /\ last'.outcome = "created"
             /\ disk[adapters'[last'.id].storageFile] = Corrupt )
           => ~Loaded(adapters'[last'.id])
        /\ ( /\ last'.op \in {"get", "set", "save"}
             /\ ~Loaded(adapters[last'.id]) )
           => /\ last'.err = ErrNotLoaded
              /\ adapters' = adapters
              /\ disk' = disk
      ]_vars

\* set has raised "not loaded" on an adapter whose file does not parse
C3_Witness ==
    /\ LastOnAdapter({"set"})
    /\ last.err = ErrNotLoaded
    /\ ~Loaded(LastAdapter)
    /\ disk[LastFile] = Corrupt

----------------------------------------------------------------------------
(* C4 *)

\* C4: a cache entry, once made, is never replaced or removed and no key is
\* cached twice; every call of the factory returns the adapter cached under
\* the name, which is the one its first call created.
C4_RegistryIdentity ==
    [][ /\ \A i \in DOMAIN cache : i \in DOMAIN cache' /\ cache'[i] = cache[i]
        /\ \A i, j \in DOMAIN cache' : cache'[i].key = cache'[j].key => i = j
        /\ \A id \in DOMAIN adapters :
               /\ id \in DOMAIN adapters'
               /\ adapters'[id].storageFile = adapters[id].storageFile
        /\ last'.op = "registry" =>
               /\ last'.id = Lookup(cache', last'.name)
               /\ last'.name \in CacheKeys => last'.id = Lookup(cache, last'.name)
      ]_vars

\* the factory has returned a cached adapter whose data holds a set that
\* was never saved
C4_Witness ==
    /\ last.op = "registry"
    /\ last.outcome = "cached"
    /\ Loaded(LastAdapter)
    /\ LastAdapter.data # LoadData(disk[LastFile])

----------------------------------------------------------------------------
(* C5 *)

\* C5: no two cached adapters have the same storageFile.
C5_OneAdapterPerLocation ==
    \A i, j \in DOMAIN cache :
        i # j => adapters[cache[i].adapter].storageFile # adapters[cache[j].adapter].storageFile

----------------------------------------------------------------------------
(* C6 *)

\* C6: saveAll() returns without raising and invokes save on every cached
\* adapter.
C6_SaveAllIsolation ==
    last.op = "saveAll" =>
        /\ last.err = "none"
        /\ {last.saved[i] : i \in DOMAIN last.saved} = {cache[i].adapter : i \in DOMAIN cache}

----------------------------------------------------------------------------
(* C7 *)

\* C7: saveAll() invokes save() once on each cached adapter, in the order
\* in which the adapters were created.
C7_SaveAllOrder ==
    last.op = "saveAll" => last.saved = [i \in DOMAIN cache |-> cache[i].adapter]

----------------------------------------------------------------------------
(* C8 *)

\* C8: when set(p, v) returns on a loaded adapter, the value returned is
\* what get(p) returned on the data before the call, and get(p) on the data
\* after the call returns v.
C8_SetReturnsPrior ==
    [][ (last'.op = "set" /\ last'.err = "none") =>
            /\ Loaded(adapters[last'.id])
            /\ Returned(last'.ret) = AdapterGet(adapters[last'.id], last'.key)
            /\ AdapterGet(adapters'[last'.id], last'.key) = Returned(last'.val)
      ]_vars

\* set has replaced a value that was there and returned it
C8_Witness ==
    /\ LastOnAdapter({"set"})
    /\ last.err = "none"
    /\ last.ret = Num(5)
    /\ last.val = EmptyObj
    /\ AdapterGet(LastAdapter, last.key) = Returned(EmptyObj)

----------------------------------------------------------------------------
(* C9 *)

\* the last call was a save() of a loaded adapter whose write failed
SaveFailed(l) == l.op = "save" /\ l.outcome \in {"failed", "failedPartial"}

----------------------------------------------------------------------------
(* C10 *)

\* the object holding the last segment of a path on which get succeeds
RECURSIVE Container(_, _)
Container(object, split) ==
    IF Len(split) = 1 THEN object ELSE Container(GetProp(object, Head(split)), Tail(split))

\* C10: after set(key, undefined) has returned, the last segment of key is
\* not among the keys of the mapping that contains it; for a single-segment
\* key it is not in adapter.keys.
C10_UndefinedDeletes ==
    (LastOnAdapter({"set"}) /\ last.err = "none" /\ last.val = Undefined) =>
        LET split == last.key.split
        IN  /\ split[Len(split)] \notin OwnKeys(Container(LastAdapter.data, split))
            /\ Len(split) = 1 => split[1] \notin AdapterKeys(LastAdapter).keys

----------------------------------------------------------------------------
(* C11 *)

\* C11: a call of adapter.get, whether it returns or raises, leaves the data
\* of every adapter (the document and the loaded state), the registry and
\* the durable store exactly as they were; in particular it creates no
\* intermediate object.
C11_GetLeavesStateAlone ==
    [][last'.op = "get" => /\ adapters' = adapters
                           /\ cache' = cache
                           /\ disk' = disk]_vars

\* a get of "a.b" has raised at the intermediate segment "a" of a loaded
\* adapter, and the document still has no key "a"
C11_Witness ==
    /\ LastOnAdapter({"get"})
    /\ last.key = KeyAB
    /\ last.err = ErrNotAnObject
    /\ LastAdapter.data.t = "object"
    /\ "a" \notin OwnKeys(LastAdapter.data)

----------------------------------------------------------------------------
(* C12 *)

----------------------------------------------------------------------------
(* C13 *)

IsMapping(v) == v.t = "object"

KeyABA == StringKey(<<"a", "b", "a">>)

\* the value the segments of split lead to from v; Undefined where a key is
\* absent
RECURSIVE ValueAt(_, _)
ValueAt(v, split) ==
    IF split = <<>> THEN v
    ELSE IF IsContainer(v) /\ Head(split) \in OwnKeys(v)
         THEN ValueAt(v.m[Head(split)], Tail(split))
         ELSE Undefined

\* every intermediate segment of split is absent from the mapping it is
\* looked up in, or holds a mapping
RECURSIVE Vivifiable(_, _)
Vivifiable(current, split) ==
    \/ Len(split) = 1
    \/ Head(split) \notin OwnKeys(current)
    \/ /\ IsMapping(current.m[Head(split)])
       /\ Vivifiable(current.m[Head(split)], Tail(split))

\* the mapping current with v at the end of split, an empty mapping made for
\* every absent intermediate segment, and every other key as it was
RECURSIVE Assigned(_, _, _)
Assigned(current, split, v) ==
    LET key   == Head(split)
        old   == IF key \in OwnKeys(current) THEN current.m[key] ELSE EmptyObj
        child == IF Len(split) = 1 THEN v ELSE Assigned(old, Tail(split), v)
    IN  Obj([k \in OwnKeys(current) \cup {key} |-> IF k = key THEN child ELSE current.m[k]])

\* C13: for a mapping root and a path whose intermediate segments are each
\* absent or mappings, set(root, p, v) returns, leaves root with an empty
\* mapping made for every missing intermediate segment, v at the final
\* segment and every key outside the path as it was, and get(root, p) then
\* returns v.
C13_SetThenGet ==
    [][(/\ last'.op = "setPath"
        /\ last'.key.isString
        /\ IsMapping(target)
        /\ Vivifiable(target, last'.key.split))
       => /\ last'.err = "none"
          /\ target' = Assigned(target, last'.key.split, last'.val)
          /\ GetPath(target', last'.key) = Returned(last'.val)]_vars

\* set({}, "a.b.a", 5) has left {a: {b: {a: 5}}}
C13_Witness ==
    /\ last.op = "setPath"
    /\ last.before = EmptyObj
    /\ last.key = KeyABA
    /\ last.err = "none"
    /\ target = Obj("a" :> Obj("b" :> Obj("a" :> Num(5))))

----------------------------------------------------------------------------
(* C14 *)

\* the first i segments of split
Prefix(split, i) == SubSeq(split, 1, i)

\* the values the intermediate segments of split resolve to from root
Intermediates(root, split) ==
    {ValueAt(root, Prefix(split, i)) : i \in 1..(Len(split) - 1)}

----------------------------------------------------------------------------
(* C15 *)

\* segment i of split is a key of the container the segments before it lead
\* to from root, and the value it holds there is falsy
FalsyAt(root, split, i) ==
    LET parent == ValueAt(root, Prefix(split, i - 1))
    IN  /\ IsContainer(parent)
        /\ split[i] \in OwnKeys(parent)
        /\ ~Truthy(parent.m[split[i]])

\* C15: when set(root, p, v) comes to an intermediate segment whose existing
\* value is falsy (0 or null), it returns, and afterwards that segment holds
\* a mapping, the former value is gone, and get(root, p) returns v.
C15_FalsyOverwritten ==
    [][(/\ last'.op = "setPath"
        /\ last'.key.isString
        /\ IsContainer(target))
       => \A i \in 1..(Len(last'.key.split) - 1) :
              FalsyAt(target, last'.key.split, i)
              => /\ last'.err = "none"
                 /\ IsMapping(ValueAt(target', Prefix(last'.key.split, i)))
                 /\ GetPath(target', last'.key) = Returned(last'.val)]_vars

\* set({a: {b: 0}}, "a.b.a", 5) has left {a: {b: {a: 5}}}
C15_Witness ==
    /\ last.op = "setPath"
    /\ last.before = Obj("a" :> Obj("b" :> Num(0)))
    /\ last.key = KeyABA
    /\ last.val = Num(5)
    /\ last.err = "none"
    /\ target = Obj("a" :> Obj("b" :> Obj("a" :> Num(5))))

----------------------------------------------------------------------------
(* C16 *)

\* C16: whatever the durable store holds, the data of every adapter is a
\* mapping or the unloaded sentinel null.
C16_DataMappingOrUnloaded ==
    \A id \in DOMAIN adapters : adapters[id].data.t \in {"object", "null"}

----------------------------------------------------------------------------
(* C17 *)

\* C17: an unloaded adapter stays unloaded under every call but load() on
\* it, and a load() on it makes it loaded exactly when the location holds
\* no document or one that parses.
C17_RecoveryByReload ==
    [][\A id \in DOMAIN adapters :
          ~Loaded(adapters[id])
          => (Loaded(adapters'[id])
                <=> /\ last'.op = "load"
                    /\ last'.id = id
                    /\ disk[adapters[id].storageFile].k \in {"missing", "json"})]_vars

----------------------------------------------------------------------------
(* C18 *)

\* C18: whenever adapter.set raises (adapter unloaded, key not a string, or
\* the preliminary get failing at an intermediate segment), the data of
\* every adapter is exactly what it was before the call.
C18_FailedSetLeavesData ==
    [][(last'.op = "set" /\ last'.err # "none") => adapters' = adapters]_vars

\* a set of "a.b" has raised at the intermediate segment "a" of a loaded
\* adapter, whose document has no key "a"
C18_Witness ==
    /\ LastOnAdapter({"set"})
    /\ last.key = KeyAB
    /\ last.err = ErrNotAnObject
    /\ LastAdapter.data.t = "object"
    /\ "a" \notin OwnKeys(LastAdapter.data)

----------------------------------------------------------------------------
(* C19 *)

\* the adapter saveAll saved last
LastSaved == last.saved[Len(last.saved)]

\* C19: two names that resolve to one location get two distinct adapters
\* (the registry hands each name an adapter no other name has); a set
\* through one adapter changes the data of no other; and after a saveAll
\* whose writes all succeed the location holds the serialised data of the
\* adapter saved last.
C19_AliasesLastWriterWins ==
    [][/\ last'.op = "registry"
            => \E i \in DOMAIN cache' :
                   /\ cache'[i].key = last'.name
                   /\ cache'[i].adapter = last'.id
                   /\ \A j \in DOMAIN cache' \ {i} : cache'[j].adapter # last'.id
       /\ last'.op = "set"
            => \A j \in DOMAIN adapters \ {last'.id} : adapters'[j] = adapters[j]
       /\ (last'.op = "saveAll" /\ last'.outcome = "written" /\ last'.saved # <<>>)
            => LET id == last'.saved[Len(last'.saved)]
               IN  disk'[adapters[id].storageFile] = Json(Stringify(adapters[id].data))]_vars

\* saveAll has saved the adapters of both names, whose data differ, and the
\* location holds the data of the second
C19_Witness ==
    /\ last.op = "saveAll"
    /\ last.outcome = "written"
    /\ Len(last.saved) = 2
    /\ last.saved[1] # last.saved[2]
    /\ adapters[last.saved[1]].storageFile = adapters[last.saved[2]].storageFile
    /\ Stringify(adapters[last.saved[1]].data) # Stringify(adapters[last.saved[2]].data)
    /\ disk[adapters[LastSaved].storageFile] = Json(Stringify(adapters[LastSaved].data))

----------------------------------------------------------------------------
(* C20 *)

\* C20: load(), on a loaded adapter as on an unloaded one, replaces the
\* adapter's data with the durable state of that moment: the content of the
\* document, the empty mapping when there is no document, the unloaded
\* sentinel when the document does not parse; whatever was set and not
\* saved is gone.  The store itself and the other adapters are unchanged.
C20_LoadOverwrites ==
    [][last'.op = "load"
       => LET id      == last'.id
              content == disk[adapters[id].storageFile]
          IN  /\ adapters'[id].data = CASE content.k = "missing" -> EmptyObj
                                        [] content.k = "json"    -> content.v
                                        [] OTHER                 -> Null
              /\ \A j \in DOMAIN adapters \ {id} : adapters'[j] = adapters[j]
              /\ disk' = disk]_vars

\* load() was called on a loaded adapter whose document no longer parses,
\* and the adapter is now unloaded
C20_Witness ==
    /\ LastOnAdapter({"load"})
    /\ last.outcome = "reloaded"
    /\ disk[LastFile] = Corrupt
    /\ ~Loaded(LastAdapter)

====
